---- MODULE Spec2Model ----
(***************************************************************************)
(* Scheduling core of the academic planner: free-slot discovery            *)
(* (database.py get_free_slots), priority scoring, slot ranking, the       *)
(* greedy auto-scheduler, alone and invoked twice, the conflict detector    *)
(* and the daily schedule (scheduler.py), the conflict check of the        *)
(* add-class form and the operations on the timetable, through the forms   *)
(* and called directly (database.py, app.py).                              *)
(*                                                                         *)
(* Encoding.  A time of day is the number of minutes since 00:00; a date   *)
(* is a day number, day 0 being a Monday, so date.weekday() is date % 7;   *)
(* a datetime is the number of minutes since day 0, 00:00.  SQL NULL and   *)
(* Python None are the value NULL.  A table is the sequence of its rows    *)
(* in primary-key order; the key of a row is its index.                    *)
(***************************************************************************)
EXTENDS Integers, Sequences, FiniteSets, TLC

VARIABLES
    classes,        \* table timetable
    tasks,          \* table tasks
    notifications,  \* table notifications
    now,            \* the clock datetime.now() reads
    due_is_str,     \* storage hands due_date back as an ISO string (else a datetime)
    pc,             \* position of the auto_schedule_tasks invocation
    unscheduled_tasks, \* auto_schedule_tasks: unscheduled_tasks (the input of the sort)
    today,          \* auto_schedule_tasks: today
    sorted_tasks,   \* auto_schedule_tasks: sorted_tasks (row snapshots)
    scheduled,      \* auto_schedule_tasks: scheduled (the list it returns)
    task_pos,       \* auto_schedule_tasks: index of the for-loop over sorted_tasks
    max_date,       \* auto_schedule_tasks: max_date of the current task
    day_offset,     \* auto_schedule_tasks: day_offset of the inner loop
    probed,         \* history: per position of sorted_tasks, the dates the inner loop tried
    call,           \* the last call of a pure function and what it returned
    run2            \* a second invocation of auto_schedule_tasks: its position and locals

vars == <<classes, tasks, notifications, now, due_is_str, pc, unscheduled_tasks, today,
          sorted_tasks, scheduled, task_pos, max_date, day_offset, probed, call, run2>>

run_vars == <<pc, unscheduled_tasks, today, sorted_tasks, scheduled, task_pos, max_date,
              day_offset, probed>>

-----------------------------------------------------------------------------
(* Bounds of the model *)

MaxClasses == 2
MaxTasks == 2
MaxSlotClasses == 3
MaxConflictClasses == 3
MaxNotifications == 4
MaxStoredClasses == 2
MaxClassNotifications == 2
MaxCheckClasses == 2
MaxTwoRunClasses == 1
MaxTwoRunTasks == 2
MaxEditClasses == 2
MaxEditNotifications == 2
MaxDailyClasses == 2
MaxDailyTasks == 2

(* Constants of the program *)

DayStartMinute == 480
DayEndMinute == 1260
HorizonDays == 7
MinutesPerDay == 24 * 60
DaysPerWeek == 7

NULL == 0 - 1

Min(a, b) == IF a <= b THEN a ELSE b
Abs(a) == IF a < 0 THEN 0 - a ELSE a

(* datetime helpers *)
DateTime(date, minute) == date * MinutesPerDay + minute
DateOf(dt) == dt \div MinutesPerDay
\* the weekday counted from Sunday
WeekdayFromSunday(date) == (date + 1) % DaysPerWeek
Weekday(date) == date % DaysPerWeek
\* a day count rounded toward zero
TimedeltaDaysTruncated(minutes) ==
    IF minutes < 0 THEN 0 - ((0 - minutes) \div MinutesPerDay) ELSE minutes \div MinutesPerDay

\* timedelta.days: the floor of the difference in days
TimedeltaDays(minutes) == minutes \div MinutesPerDay

-----------------------------------------------------------------------------
(* database.py *)

RECURSIVE SelectSeqIdx(_, _)
\* the rows of `list` whose index is in S, in index order
SelectSeqIdx(list, S) ==
    IF S = {} THEN << >>
    ELSE LET m == CHOOSE x \in S : \A y \in S : x <= y
         IN  <<list[m]>> \o SelectSeqIdx(list, S \ {m})

RECURSIVE InsertByStart(_, _)
\* x placed behind every row of the sorted sequence s that starts no later
InsertByStart(s, x) ==
    IF s = << >> THEN <<x>>
    ELSE IF Head(s).start_time <= x.start_time
         THEN <<Head(s)>> \o InsertByStart(Tail(s), x)
         ELSE <<x>> \o s

RECURSIVE SortedByStart(_)
\* sorted(rows, key=start_time): stable
SortedByStart(rows) ==
    IF rows = << >> THEN << >>
    ELSE InsertByStart(SortedByStart(SubSeq(rows, 1, Len(rows) - 1)), rows[Len(rows)])

\* where the class stands in a list of rows
PositionOfClass(rows, class_id) == CHOOSE p \in 1..Len(rows) : rows[p].class_id = class_id

\* SELECT ... WHERE day_of_week = d AND is_active AND NOT is_cancelled ORDER BY start_time
\* (rows with the same start_time come in key order)
get_classes_by_day(day_of_week) ==
    SortedByStart(SelectSeq(classes, LAMBDA c :
        c.day_of_week = day_of_week /\ c.is_active /\ ~c.is_cancelled))

\* the iteration with the cursor left where it was
FreeSlotsStepKeepCursor(acc, class_info, duration_minutes) ==
    LET time_diff == class_info.start_time - acc.current_time
    IN  [current_time |-> acc.current_time,
         free_slots |->
            IF time_diff >= duration_minutes
            THEN Append(acc.free_slots,
                        [start |-> acc.current_time, end |-> class_info.start_time,
                         duration |-> time_diff])
            ELSE acc.free_slots]

\* the iteration asking for a gap strictly longer than the duration
FreeSlotsStepStrict(acc, class_info, duration_minutes) ==
    LET time_diff == class_info.start_time - acc.current_time
    IN  [current_time |-> class_info.end_time,
         free_slots |->
            IF time_diff > duration_minutes
            THEN Append(acc.free_slots,
                        [start |-> acc.current_time, end |-> class_info.start_time,
                         duration |-> time_diff])
            ELSE acc.free_slots]

\* one iteration of the loop of get_free_slots over sorted_classes
FreeSlotsStep(acc, class_info, duration_minutes) ==
    LET time_diff == class_info.start_time - acc.current_time
    IN  [current_time |-> class_info.end_time,
         free_slots |->
            IF time_diff >= duration_minutes
            THEN Append(acc.free_slots,
                        [start |-> acc.current_time, end |-> class_info.start_time,
                         duration |-> time_diff])
            ELSE acc.free_slots]

RECURSIVE FreeSlotsLoop(_, _)
\* the state of get_free_slots after the loop over sorted_classes
FreeSlotsLoop(sorted_classes, duration_minutes) ==
    IF sorted_classes = << >>
    THEN [current_time |-> DayStartMinute, free_slots |-> << >>]
    ELSE FreeSlotsStep(
            FreeSlotsLoop(SubSeq(sorted_classes, 1, Len(sorted_classes) - 1), duration_minutes),
            sorted_classes[Len(sorted_classes)], duration_minutes)

\* get_free_slots on the rows get_classes_by_day returned
FreeSlotsOf(day_classes, duration_minutes) ==
    LET acc == FreeSlotsLoop(SortedByStart(day_classes), duration_minutes)
        remaining_time == DayEndMinute - acc.current_time
    IN  IF remaining_time >= duration_minutes
        THEN Append(acc.free_slots,
                    [start |-> acc.current_time, end |-> DayEndMinute,
                     duration |-> remaining_time])
        ELSE acc.free_slots

get_free_slots(day_of_week, duration_minutes) ==
    FreeSlotsOf(get_classes_by_day(day_of_week), duration_minutes)

\* 'Urgent' > 'Medium' > 'Low' > 'High' > 'Critical' as text
PriorityText(priority) ==
    CASE priority = "Urgent" -> 5
      [] priority = "Medium" -> 4
      [] priority = "Low" -> 3
      [] priority = "High" -> 2
      [] OTHER -> 1

\* ORDER BY due_date NULLS LAST, priority DESC: a comes before b
TaskOrderBefore(a, b) ==
    IF a.due_date # b.due_date
    THEN IF a.due_date = NULL THEN FALSE
         ELSE IF b.due_date = NULL THEN TRUE
         ELSE a.due_date < b.due_date
    ELSE PriorityText(a.priority) > PriorityText(b.priority)

RECURSIVE InsertTaskOrder(_, _)
InsertTaskOrder(s, x) ==
    IF s = << >> THEN <<x>>
    ELSE IF TaskOrderBefore(x, Head(s))
         THEN <<x>> \o s
         ELSE <<Head(s)>> \o InsertTaskOrder(Tail(s), x)

RECURSIVE TaskOrder(_)
TaskOrder(rows) ==
    IF rows = << >> THEN << >>
    ELSE InsertTaskOrder(TaskOrder(SubSeq(rows, 1, Len(rows) - 1)), rows[Len(rows)])

\* the query without its filter on is_completed
get_all_tasks_WithCompleted == TaskOrder(tasks)

\* get_all_tasks(user_id, include_completed=False); rows equal in due_date and
\* priority come in key order
get_all_tasks ==
    TaskOrder(SelectSeq(tasks, LAMBDA t : ~t.is_completed))

\* schedule_task: the UPDATE of one row, the other rows untouched
schedule_task(table, task_id, scheduled_date, scheduled_start_time, scheduled_end_time) ==
    [k \in 1..Len(table) |->
        IF table[k].task_id = task_id
        THEN [table[k] EXCEPT !.scheduled_date = scheduled_date,
                              !.scheduled_start_time = scheduled_start_time,
                              !.scheduled_end_time = scheduled_end_time]
        ELSE table[k]]

\* create_notification: the INSERT of one row
create_notification(table, notification_type, related_class_id, related_task_id) ==
    Append(table, [notification_type |-> notification_type,
                   related_class_id |-> related_class_id,
                   related_task_id |-> related_task_id,
                   is_read |-> FALSE])

-----------------------------------------------------------------------------
(* scheduler.py *)

priority_weights(priority) ==
    CASE priority = "Urgent" -> 100
      [] priority = "High" -> 75
      [] priority = "Medium" -> 50
      [] priority = "Low" -> 25
      [] OTHER -> 25

urgency_bonus(days_until_due) ==
    IF days_until_due < 0 THEN 50
    ELSE IF days_until_due = 0 THEN 40
    ELSE IF days_until_due = 1 THEN 30
    ELSE IF days_until_due <= 3 THEN 20
    ELSE IF days_until_due <= 7 THEN 10
    ELSE 0

days_until_due(task, clock) == TimedeltaDays(task.due_date - clock)

ScoreAt(task, clock) ==
    IF task.due_date # NULL
    THEN priority_weights(task.priority) + urgency_bonus(days_until_due(task, clock))
    ELSE priority_weights(task.priority)

\* the clock does not advance within one invocation
calculate_priority_score(task) == ScoreAt(task, now)

time_score(hour) ==
    IF 14 <= hour /\ hour < 18 THEN 10
    ELSE IF 9 <= hour /\ hour < 12 THEN 8
    ELSE IF 12 <= hour /\ hour < 14 THEN 6
    ELSE IF 18 <= hour /\ hour < 21 THEN 5
    ELSE 2

\* the score without the duration fit
total_score30_TimeOnly(slot, duration) == 30 * time_score(slot.start \div 60)

\* 30 * (time_score + duration_score): the score is a multiple of 1/30, and on the
\* 15-minute grid of the forms the float the code computes is that multiple exactly
total_score30(slot, duration) ==
    30 * time_score(slot.start \div 60)
        + (300 - Min(Abs(slot.duration - duration), 300))

NoSlot == [start |-> NULL, end |-> NULL, duration |-> NULL]

RECURSIVE MaxByScoreLast(_, _)
\* the loop giving up the item it holds for one that scores the same
MaxByScoreLast(free_slots, duration) ==
    IF Len(free_slots) = 1 THEN free_slots[1]
    ELSE LET held == MaxByScoreLast(SubSeq(free_slots, 1, Len(free_slots) - 1), duration)
             item == free_slots[Len(free_slots)]
         IN  IF total_score30(item, duration) >= total_score30(held, duration)
             THEN item
             ELSE held

RECURSIVE MaxByScore(_, _)
\* max(scored_slots, key=score): the loop keeps the item it holds unless the next
\* one scores strictly higher
MaxByScore(free_slots, duration) ==
    IF Len(free_slots) = 1 THEN free_slots[1]
    ELSE LET held == MaxByScore(SubSeq(free_slots, 1, Len(free_slots) - 1), duration)
             item == free_slots[Len(free_slots)]
         IN  IF total_score30(item, duration) > total_score30(held, duration)
             THEN item
             ELSE held

\* lines 56-91 of find_best_time_slot
BestOf(free_slots, duration) ==
    IF free_slots = << >> THEN NoSlot ELSE MaxByScore(free_slots, duration)

find_best_time_slot(task, day_of_week) ==
    BestOf(get_free_slots(day_of_week, task.estimated_duration), task.estimated_duration)

RECURSIVE InsertBeforeEqualScore(_, _)
\* x placed in front of the rows of s with the same score
InsertBeforeEqualScore(s, x) ==
    IF s = << >> THEN <<x>>
    ELSE IF calculate_priority_score(Head(s)) > calculate_priority_score(x)
         THEN <<Head(s)>> \o InsertBeforeEqualScore(Tail(s), x)
         ELSE <<x>> \o s

RECURSIVE InsertByScoreDesc(_, _)
\* x placed behind every row of s whose score is not lower
InsertByScoreDesc(s, x) ==
    IF s = << >> THEN <<x>>
    ELSE IF calculate_priority_score(Head(s)) >= calculate_priority_score(x)
         THEN <<Head(s)>> \o InsertByScoreDesc(Tail(s), x)
         ELSE <<x>> \o s

RECURSIVE SortedByScoreDesc(_)
\* sorted(rows, key=calculate_priority_score, reverse=True): stable
SortedByScoreDesc(rows) ==
    IF rows = << >> THEN << >>
    ELSE InsertByScoreDesc(SortedByScoreDesc(SubSeq(rows, 1, Len(rows) - 1)),
                           rows[Len(rows)])

\* lines 97-98 of auto_schedule_tasks
UnscheduledTasks == SelectSeq(get_all_tasks, LAMBDA t : t.scheduled_date = NULL)

-----------------------------------------------------------------------------
(* auto_schedule_tasks, one action per stretch of code between two calls of  *)
(* the storage                                                               *)

\* lines 96-109: fetch, filter, the early return, sort, today
AutoScheduleBegin ==
    /\ pc = "idle"
    /\ unscheduled_tasks' = UnscheduledTasks
    /\ IF UnscheduledTasks = << >>
       THEN /\ pc' = "returned"
            /\ UNCHANGED <<today, sorted_tasks, task_pos, probed>>
       ELSE /\ pc' = "next_task"
            /\ sorted_tasks' = SortedByScoreDesc(UnscheduledTasks)
            /\ today' = DateOf(now)
            /\ task_pos' = 1
            /\ probed' = [k \in 1..Len(UnscheduledTasks) |-> {}]
    /\ scheduled' = << >>
    /\ UNCHANGED <<classes, tasks, notifications, now, due_is_str, max_date, day_offset, call, run2>>

\* lines 112-124: the next task of the for-loop and its scheduling window.
\* A due_date that is a datetime is compared with a date at line 122: TypeError.
TaskWindow ==
    /\ pc = "next_task"
    /\ task_pos <= Len(sorted_tasks)
    /\ LET task == sorted_tasks[task_pos]
       IN  IF task.due_date # NULL
           THEN IF due_is_str
                THEN /\ max_date' = Min(DateOf(task.due_date), today + HorizonDays)
                     /\ pc' = "try_day"
                ELSE /\ pc' = "raised"
                     /\ UNCHANGED max_date
           ELSE /\ max_date' = today + HorizonDays
                /\ pc' = "try_day"
    /\ day_offset' = 0
    /\ UNCHANGED <<classes, tasks, notifications, now, due_is_str, unscheduled_tasks, today,
                   sorted_tasks, scheduled, task_pos, probed, call, run2>>

\* lines 127-156: one iteration of the loop over range((max_date - today).days + 1)
TryDay ==
    /\ pc = "try_day"
    /\ day_offset < (max_date - today) + 1
    /\ LET task == sorted_tasks[task_pos]
           schedule_date == today + day_offset
           day_of_week == Weekday(schedule_date)
           best_slot == find_best_time_slot(task, day_of_week)
           duration == task.estimated_duration
           end_time == (best_slot.start + duration) % MinutesPerDay
       IN  /\ probed' = [probed EXCEPT ![task_pos] = @ \cup {schedule_date}]
           /\ IF best_slot # NoSlot
              THEN /\ tasks' = schedule_task(tasks, task.task_id, schedule_date,
                                             best_slot.start, end_time)
                   /\ scheduled' = Append(scheduled,
                                          [task |-> task, date |-> schedule_date,
                                           start |-> best_slot.start, end |-> end_time])
                   /\ task_pos' = task_pos + 1
                   /\ pc' = "next_task"
                   /\ UNCHANGED day_offset
              ELSE /\ day_offset' = day_offset + 1
                   /\ UNCHANGED <<tasks, scheduled, task_pos, pc>>
    /\ UNCHANGED <<classes, notifications, now, due_is_str, unscheduled_tasks, today,
                   sorted_tasks, max_date, call, run2>>

\* the rejection of a task undoing the assignments the run has written so far
TaskUnscheduledRollback ==
    /\ pc = "try_day"
    /\ ~(day_offset < (max_date - today) + 1)
    /\ notifications' = create_notification(notifications, "schedule_conflict", NULL,
                                            sorted_tasks[task_pos].task_id)
    /\ tasks' = [id \in 1..Len(tasks) |->
                    IF \E k \in 1..Len(scheduled) : scheduled[k].task.task_id = id
                    THEN [tasks[id] EXCEPT !.scheduled_date = NULL,
                                           !.scheduled_start_time = NULL,
                                           !.scheduled_end_time = NULL]
                    ELSE tasks[id]]
    /\ task_pos' = task_pos + 1
    /\ pc' = "next_task"
    /\ UNCHANGED <<classes, now, due_is_str, unscheduled_tasks, today, sorted_tasks,
                   scheduled, max_date, day_offset, probed, call, run2>>

\* lines 158-166: the inner loop ran out of days
TaskUnscheduled ==
    /\ pc = "try_day"
    /\ ~(day_offset < (max_date - today) + 1)
    /\ notifications' = create_notification(notifications, "schedule_conflict", NULL,
                                            sorted_tasks[task_pos].task_id)
    /\ task_pos' = task_pos + 1
    /\ pc' = "next_task"
    /\ UNCHANGED <<classes, tasks, now, due_is_str, unscheduled_tasks, today, sorted_tasks,
                   scheduled, max_date, day_offset, probed, call, run2>>

\* line 168
AutoScheduleReturn ==
    /\ pc = "next_task"
    /\ task_pos > Len(sorted_tasks)
    /\ pc' = "returned"
    /\ UNCHANGED <<classes, tasks, notifications, now, due_is_str, unscheduled_tasks, today,
                   sorted_tasks, scheduled, task_pos, max_date, day_offset, probed, call, run2>>

-----------------------------------------------------------------------------
(* The stored rows the runs start from *)

ClassRow(day, start, end, active, cancelled) ==
    [class_id |-> 0, day_of_week |-> day, start_time |-> start, end_time |-> end,
     is_active |-> active, is_cancelled |-> cancelled]

TaskRow(priority, due, duration, completed, sdate, sstart, send) ==
    [task_id |-> 0, priority |-> priority, due_date |-> due,
     estimated_duration |-> duration, is_completed |-> completed,
     scheduled_date |-> sdate, scheduled_start_time |-> sstart,
     scheduled_end_time |-> send]

WithClassIds(rows) == [k \in 1..Len(rows) |-> [rows[k] EXCEPT !.class_id = k]]
WithTaskIds(rows) == [k \in 1..Len(rows) |-> [rows[k] EXCEPT !.task_id = k]]

RECURSIVE IndexSets(_, _)
\* the subsets of 1..m with at most n elements
IndexSets(m, n) ==
    IF n = 0 THEN {{}}
    ELSE LET smaller == IndexSets(m, n - 1)
         IN  smaller \cup {S \cup {x} : S \in smaller, x \in 1..m}

\* the tables of at most n rows drawn from list, in the order of list
TablesOf(list, n) == {SelectSeqIdx(list, S) : S \in IndexSets(Len(list), n)}

\* the run starts on a Monday, day 7
RunToday == DaysPerWeek

RunClassRows ==
    << ClassRow(0, 540, 630, TRUE, FALSE),    \* Mon 09:00-10:30
       ClassRow(0, 780, 840, TRUE, FALSE),    \* Mon 13:00-14:00
       ClassRow(0, 480, 840, TRUE, FALSE),    \* Mon 08:00-14:00
       ClassRow(0, 480, 1260, TRUE, FALSE),   \* Mon 08:00-21:00
       ClassRow(0, 480, 1260, TRUE, TRUE),    \* the same, cancelled
       ClassRow(0, 480, 1260, FALSE, FALSE),  \* the same, deleted
       ClassRow(1, 540, 630, TRUE, FALSE),    \* Tue 09:00-10:30
       ClassRow(1, 480, 1260, TRUE, FALSE),   \* Tue 08:00-21:00
       ClassRow(1, 480, 840, TRUE, FALSE),    \* Tue 08:00-14:00
       ClassRow(1, 420, 450, TRUE, FALSE) >>  \* Tue 07:00-07:30

RunTaskRows ==
    << TaskRow("Urgent", DateTime(RunToday, 1439), 60, FALSE, NULL, NULL, NULL),
       TaskRow("Low", NULL, 60, FALSE, NULL, NULL, NULL),
       TaskRow("High", NULL, 90, FALSE, NULL, NULL, NULL),
       TaskRow("Low", DateTime(RunToday - 1, 720), 60, FALSE, NULL, NULL, NULL),
       TaskRow("Medium", NULL, 810, FALSE, NULL, NULL, NULL),
       TaskRow("Critical", DateTime(RunToday + 1, 480), 90, FALSE, NULL, NULL, NULL),
       TaskRow("Medium", DateTime(RunToday + 10, 720), 60, FALSE, NULL, NULL, NULL),
       TaskRow("Urgent", NULL, 60, TRUE, NULL, NULL, NULL),
       TaskRow("High", NULL, 60, FALSE, RunToday, 840, 900),
       TaskRow("Low", DateTime(RunToday, 720), 60, FALSE, NULL, NULL, NULL) >>

RunNows == {DateTime(RunToday, 540), DateTime(RunToday, 1410)}

NoCall == [op |-> "none"]

\* the second invocation not yet made
NoRun2 ==
    [pc |-> "idle", unscheduled_tasks |-> << >>, today |-> NULL, sorted_tasks |-> << >>,
     scheduled |-> << >>, task_pos |-> 0, max_date |-> NULL, day_offset |-> 0,
     after_first |-> FALSE, tasks_before |-> << >>, notifications_before |-> << >>,
     overwrote |-> {}]

\* no invocation in progress, nothing called yet
Idle ==
    /\ notifications = << >>
    /\ pc = "idle"
    /\ unscheduled_tasks = << >>
    /\ today = NULL
    /\ sorted_tasks = << >>
    /\ scheduled = << >>
    /\ task_pos = 0
    /\ max_date = NULL
    /\ day_offset = 0
    /\ probed = << >>
    /\ call = NoCall
    /\ run2 = NoRun2

Init ==
    /\ classes \in {WithClassIds(t) : t \in TablesOf(RunClassRows, MaxClasses)}
    /\ tasks \in {WithTaskIds(t) : t \in TablesOf(RunTaskRows, MaxTasks)}
    /\ now \in RunNows
    /\ due_is_str \in BOOLEAN
    /\ Idle

Next ==
    \/ AutoScheduleBegin
    \/ TaskWindow
    \/ TryDay
    \/ TaskUnscheduled
    \/ AutoScheduleReturn

Spec == Init /\ [][Next]_vars

-----------------------------------------------------------------------------
(* A second invocation of auto_schedule_tasks, in a session of its own, next  *)
(* to the first: the same code on its own locals, the storage shared          *)

\* lines 96-109 in the second invocation; it remembers whether the first one had
\* ended and what the storage held
Run2Begin ==
    /\ run2.pc = "idle"
    /\ run2' = IF UnscheduledTasks = << >>
               THEN [run2 EXCEPT !.pc = "returned",
                                 !.after_first = pc \in {"returned", "raised"},
                                 !.tasks_before = tasks,
                                 !.notifications_before = notifications]
               ELSE [run2 EXCEPT !.pc = "next_task",
                                 !.unscheduled_tasks = UnscheduledTasks,
                                 !.sorted_tasks = SortedByScoreDesc(UnscheduledTasks),
                                 !.today = DateOf(now),
                                 !.task_pos = 1,
                                 !.after_first = pc \in {"returned", "raised"},
                                 !.tasks_before = tasks,
                                 !.notifications_before = notifications]
    /\ UNCHANGED <<classes, tasks, notifications, now, due_is_str, run_vars, call>>

\* lines 112-124 in the second invocation
Run2TaskWindow ==
    /\ run2.pc = "next_task"
    /\ run2.task_pos <= Len(run2.sorted_tasks)
    /\ LET task == run2.sorted_tasks[run2.task_pos]
       IN  run2' = IF task.due_date # NULL
                   THEN IF due_is_str
                        THEN [run2 EXCEPT !.max_date = Min(DateOf(task.due_date),
                                                           run2.today + HorizonDays),
                                          !.pc = "try_day",
                                          !.day_offset = 0]
                        ELSE [run2 EXCEPT !.pc = "raised", !.day_offset = 0]
                   ELSE [run2 EXCEPT !.max_date = run2.today + HorizonDays,
                                     !.pc = "try_day",
                                     !.day_offset = 0]
    /\ UNCHANGED <<classes, tasks, notifications, now, due_is_str, run_vars, call>>

\* the iteration that reads the row again and passes over a task that has got
\* an assignment in the meantime
Run2TryDayChecked ==
    /\ run2.pc = "try_day"
    /\ run2.day_offset < (run2.max_date - run2.today) + 1
    /\ LET task == run2.sorted_tasks[run2.task_pos]
           schedule_date == run2.today + run2.day_offset
           best_slot == find_best_time_slot(task, Weekday(schedule_date))
           end_time == (best_slot.start + task.estimated_duration) % MinutesPerDay
       IN  IF tasks[task.task_id].scheduled_date # NULL
           THEN /\ run2' = [run2 EXCEPT !.task_pos = @ + 1, !.pc = "next_task"]
                /\ UNCHANGED tasks
           ELSE IF best_slot # NoSlot
           THEN /\ tasks' = schedule_task(tasks, task.task_id, schedule_date,
                                          best_slot.start, end_time)
                /\ run2' = [run2 EXCEPT
                              !.scheduled = Append(@, [task |-> task, date |-> schedule_date,
                                                       start |-> best_slot.start,
                                                       end |-> end_time]),
                              !.task_pos = @ + 1,
                              !.pc = "next_task"]
           ELSE /\ run2' = [run2 EXCEPT !.day_offset = @ + 1]
                /\ UNCHANGED tasks
    /\ UNCHANGED <<classes, notifications, now, due_is_str, run_vars, call>>

\* lines 127-156 in the second invocation; overwrote records the tasks whose row
\* held an assignment when this invocation wrote its own
Run2TryDay ==
    /\ run2.pc = "try_day"
    /\ run2.day_offset < (run2.max_date - run2.today) + 1
    /\ LET task == run2.sorted_tasks[run2.task_pos]
           schedule_date == run2.today + run2.day_offset
           best_slot == find_best_time_slot(task, Weekday(schedule_date))
           end_time == (best_slot.start + task.estimated_duration) % MinutesPerDay
       IN  IF best_slot # NoSlot
           THEN /\ tasks' = schedule_task(tasks, task.task_id, schedule_date,
                                          best_slot.start, end_time)
                /\ run2' = [run2 EXCEPT
                              !.scheduled = Append(@, [task |-> task, date |-> schedule_date,
                                                       start |-> best_slot.start,
                                                       end |-> end_time]),
                              !.task_pos = @ + 1,
                              !.pc = "next_task",
                              !.overwrote = IF tasks[task.task_id].scheduled_date # NULL
                                            THEN @ \cup {task.task_id}
                                            ELSE @]
           ELSE /\ run2' = [run2 EXCEPT !.day_offset = @ + 1]
                /\ UNCHANGED tasks
    /\ UNCHANGED <<classes, notifications, now, due_is_str, run_vars, call>>

\* the second invocation storing no notification for a task that has one
Run2TaskUnscheduledOnce ==
    /\ run2.pc = "try_day"
    /\ ~(run2.day_offset < (run2.max_date - run2.today) + 1)
    /\ LET task_id == run2.sorted_tasks[run2.task_pos].task_id
       IN  notifications' =
              IF \E n \in 1..Len(notifications) :
                    /\ notifications[n].notification_type = "schedule_conflict"
                    /\ notifications[n].related_task_id = task_id
              THEN notifications
              ELSE create_notification(notifications, "schedule_conflict", NULL, task_id)
    /\ run2' = [run2 EXCEPT !.task_pos = @ + 1, !.pc = "next_task"]
    /\ UNCHANGED <<classes, tasks, now, due_is_str, run_vars, call>>

\* lines 158-166 in the second invocation
Run2TaskUnscheduled ==
    /\ run2.pc = "try_day"
    /\ ~(run2.day_offset < (run2.max_date - run2.today) + 1)
    /\ notifications' = create_notification(notifications, "schedule_conflict", NULL,
                                            run2.sorted_tasks[run2.task_pos].task_id)
    /\ run2' = [run2 EXCEPT !.task_pos = @ + 1, !.pc = "next_task"]
    /\ UNCHANGED <<classes, tasks, now, due_is_str, run_vars, call>>

\* line 168 in the second invocation
Run2Return ==
    /\ run2.pc = "next_task"
    /\ run2.task_pos > Len(run2.sorted_tasks)
    /\ run2' = [run2 EXCEPT !.pc = "returned"]
    /\ UNCHANGED <<classes, tasks, notifications, now, due_is_str, run_vars, call>>

\* no class, Mon 09:00-10:30, or Mon 08:00-21:00
TwoRunClassRows ==
    << ClassRow(0, 540, 630, TRUE, FALSE),
       ClassRow(0, 480, 1260, TRUE, FALSE) >>

TwoRunTaskRows ==
    << TaskRow("Urgent", DateTime(RunToday, 1439), 60, FALSE, NULL, NULL, NULL),
       TaskRow("Low", NULL, 60, FALSE, NULL, NULL, NULL),
       TaskRow("Low", DateTime(RunToday - 1, 720), 60, FALSE, NULL, NULL, NULL),
       TaskRow("Medium", NULL, 810, FALSE, NULL, NULL, NULL),
       TaskRow("High", NULL, 60, FALSE, RunToday, 840, 900) >>

InitTwoRuns ==
    /\ classes \in {WithClassIds(t) : t \in TablesOf(TwoRunClassRows, MaxTwoRunClasses)}
    /\ tasks \in {WithTaskIds(t) : t \in TablesOf(TwoRunTaskRows, MaxTwoRunTasks)}
    /\ now = DateTime(RunToday, 540)
    /\ due_is_str \in BOOLEAN
    /\ Idle

NextTwoRuns ==
    \/ AutoScheduleBegin
    \/ TaskWindow
    \/ TryDay
    \/ TaskUnscheduled
    \/ AutoScheduleReturn
    \/ Run2Begin
    \/ Run2TaskWindow
    \/ Run2TryDay
    \/ Run2TaskUnscheduled
    \/ Run2Return

SpecTwoRuns == InitTwoRuns /\ [][NextTwoRuns]_vars

-----------------------------------------------------------------------------
(* The pure functions, applied to drawn inputs *)

\* 07:00 07:30 08:00 09:00 10:30 13:00 14:00 15:00 21:00 22:00
SlotTimes == {420, 450, 480, 540, 630, 780, 840, 900, 1260, 1320}
SlotDurations == {30, 60, 150}

RECURSIVE SetToSeq(_)
SetToSeq(S) ==
    IF S = {} THEN << >>
    ELSE LET m == CHOOSE x \in S : \A y \in S : x[1] < y[1] \/ (x[1] = y[1] /\ x[2] <= y[2])
         IN  <<m>> \o SetToSeq(S \ {m})

\* every interval of the grid with start < end, as a class of Monday
SlotClassRows ==
    LET pairs == SetToSeq({p \in SlotTimes \X SlotTimes : p[1] < p[2]})
    IN  [k \in 1..Len(pairs) |-> ClassRow(0, pairs[k][1], pairs[k][2], TRUE, FALSE)]

InitSlots ==
    /\ classes \in {WithClassIds(t) : t \in TablesOf(SlotClassRows, MaxSlotClasses)}
    /\ tasks = << >>
    /\ now = DateTime(RunToday, 540)
    /\ due_is_str = FALSE
    /\ Idle

CallGetFreeSlots ==
    /\ \E duration_minutes \in SlotDurations :
          call' = [op |-> "get_free_slots", day_of_week |-> 0,
                   duration_minutes |-> duration_minutes,
                   result |-> get_free_slots(0, duration_minutes)]
    /\ UNCHANGED <<classes, tasks, notifications, now, due_is_str, run_vars, run2>>

SpecSlots == InitSlots /\ [][CallGetFreeSlots]_vars

BestDurations == {60, 90}

InitBest ==
    /\ classes \in {WithClassIds(t) : t \in TablesOf(SlotClassRows, MaxSlotClasses)}
    /\ tasks \in {WithTaskIds(<<TaskRow("Medium", NULL, d, FALSE, NULL, NULL, NULL)>>) :
                    d \in BestDurations}
    /\ now = DateTime(RunToday, 540)
    /\ due_is_str = FALSE
    /\ Idle

CallFindBestTimeSlot ==
    /\ call' = [op |-> "find_best_time_slot", day_of_week |-> 0, task |-> tasks[1],
                free_slots |-> get_free_slots(0, tasks[1].estimated_duration),
                result |-> find_best_time_slot(tasks[1], 0)]
    /\ UNCHANGED <<classes, tasks, notifications, now, due_is_str, run_vars, run2>>

SpecBest == InitBest /\ [][CallFindBestTimeSlot]_vars

ScorePriorities == {"Urgent", "High", "Medium", "Low", "Critical"}
ScoreNows == {DateTime(RunToday, 0), DateTime(RunToday, 540), DateTime(RunToday, 1439)}
\* due dates from two days back to nine days ahead, at three times of day
ScoreDues ==
    {NULL} \cup {DateTime(RunToday + d, m) : d \in (0 - 2)..9, m \in {0, 540, 1439}}

InitScore ==
    /\ classes = << >>
    /\ tasks \in {WithTaskIds(<<TaskRow(p, due, 60, FALSE, NULL, NULL, NULL)>>) :
                    p \in ScorePriorities, due \in ScoreDues}
    /\ now \in ScoreNows
    /\ due_is_str \in BOOLEAN
    /\ Idle

CallCalculatePriorityScore ==
    /\ call' = [op |-> "calculate_priority_score", task |-> tasks[1],
                result |-> calculate_priority_score(tasks[1])]
    /\ UNCHANGED <<classes, tasks, notifications, now, due_is_str, run_vars, run2>>

SpecScore == InitScore /\ [][CallCalculatePriorityScore]_vars

-----------------------------------------------------------------------------
(* auto_schedule_tasks as a function of the clock it is started at *)

RECURSIVE InsertByScoreAt(_, _, _)
\* x placed behind every row of s whose score at the clock is not lower
InsertByScoreAt(s, x, clock) ==
    IF s = << >> THEN <<x>>
    ELSE IF ScoreAt(Head(s), clock) >= ScoreAt(x, clock)
         THEN <<Head(s)>> \o InsertByScoreAt(Tail(s), x, clock)
         ELSE <<x>> \o s

RECURSIVE SortedByScoreAt(_, _)
\* line 105 with datetime.now() reading clock
SortedByScoreAt(rows, clock) ==
    IF rows = << >> THEN << >>
    ELSE InsertByScoreAt(SortedByScoreAt(SubSeq(rows, 1, Len(rows) - 1), clock),
                         rows[Len(rows)], clock)

RECURSIVE RunThrough(_, _)
\* lines 111-166 for the rows of ranked, first to last, with date.today() = day
RunThrough(ranked, day) ==
    IF ranked = << >>
    THEN [assignments |-> << >>, rejected |-> {}, raised |-> FALSE]
    ELSE LET before == RunThrough(SubSeq(ranked, 1, Len(ranked) - 1), day)
             task == ranked[Len(ranked)]
             last == IF task.due_date # NULL
                     THEN Min(DateOf(task.due_date), day + HorizonDays)
                     ELSE day + HorizonDays
             days == {d \in day..last : find_best_time_slot(task, Weekday(d)) # NoSlot}
             date == CHOOSE d \in days : \A e \in days : d <= e
             best_slot == find_best_time_slot(task, Weekday(date))
         IN  IF before.raised THEN before
             ELSE IF task.due_date # NULL /\ ~due_is_str
                  THEN [before EXCEPT !.raised = TRUE]
             ELSE IF days = {}
                  THEN [before EXCEPT !.rejected = @ \cup {task.task_id}]
             ELSE [before EXCEPT !.assignments =
                      Append(@, [task |-> task, date |-> date, start |-> best_slot.start,
                                 end |-> (best_slot.start + task.estimated_duration)
                                            % MinutesPerDay])]

-----------------------------------------------------------------------------
(* detect_scheduling_conflicts and the cancel button *)

\* a class reported when the next one starts where it ends
AdjacentOverlapOrTouch(current, next_class) == current.end_time >= next_class.start_time

\* line 236: current['end_time'] > next_class['start_time']
AdjacentOverlap(current, next_class) == current.end_time > next_class.start_time

\* one record for every two classes of the day that share a point
ConflictsOfDayAllPairs(day) ==
    LET sorted_classes == SortedByStart(get_classes_by_day(day))
        n == Len(sorted_classes)
        pairs == [k \in 1..(n * n) |->
                    [day |-> day,
                     class1 |-> sorted_classes[((k - 1) \div n) + 1],
                     class2 |-> sorted_classes[((k - 1) % n) + 1],
                     type |-> "overlap"]]
    IN  SelectSeq(pairs, LAMBDA c :
            /\ c.class1.class_id # c.class2.class_id
            /\ PositionOfClass(sorted_classes, c.class1.class_id)
                  < PositionOfClass(sorted_classes, c.class2.class_id)
            /\ c.class1.start_time < c.class2.end_time
            /\ c.class2.start_time < c.class1.end_time)

\* lines 226-242: the records of one day, a pair of neighbours of the sorted list each
ConflictsOfDay(day) ==
    LET sorted_classes == SortedByStart(get_classes_by_day(day))
        pairs == [i \in 1..(Len(sorted_classes) - 1) |->
                    [day |-> day,
                     class1 |-> sorted_classes[i],
                     class2 |-> sorted_classes[i + 1],
                     type |-> "overlap"]]
    IN  IF sorted_classes = << >> THEN << >>    \* range(-1) is empty
        ELSE SelectSeq(pairs, LAMBDA c : AdjacentOverlap(c.class1, c.class2))

RECURSIVE ConflictsThrough(_)
\* line 225: for day in range(7), up to and including day
ConflictsThrough(day) ==
    IF day < 0 THEN << >>
    ELSE ConflictsThrough(day - 1) \o ConflictsOfDay(day)

\* the conflicts left out once a schedule_conflict notification is stored
detect_scheduling_conflicts_Once ==
    IF \E n \in 1..Len(notifications) :
          notifications[n].notification_type = "schedule_conflict"
    THEN << >>
    ELSE ConflictsThrough(DaysPerWeek - 1)

\* the list detect_scheduling_conflicts returns
detect_scheduling_conflicts == ConflictsThrough(DaysPerWeek - 1)

RECURSIVE NotifyConflicts(_, _)
\* lines 245-252: one notification for each conflict, without related ids
NotifyConflicts(table, conflicts) ==
    IF conflicts = << >> THEN table
    ELSE NotifyConflicts(create_notification(table, "schedule_conflict", NULL, NULL),
                         Tail(conflicts))

\* cancel_class taking the class out of the timetable as well
cancel_class_AndDeactivate(table, class_id) ==
    [k \in 1..Len(table) |->
        IF table[k].class_id = class_id
        THEN [table[k] EXCEPT !.is_cancelled = TRUE, !.is_active = FALSE]
        ELSE table[k]]

\* cancel_class: the UPDATE of one row
cancel_class(table, class_id) ==
    [k \in 1..Len(table) |->
        IF table[k].class_id = class_id
        THEN [table[k] EXCEPT !.is_cancelled = TRUE]
        ELSE table[k]]

\* Mon 09:00-12:00, 09:30-10:00, 10:30-11:00; Mon 09:00-10:00, 09:30-10:30,
\* 10:00-11:00; the first one cancelled, and deleted; Tue 09:00-10:00, 09:30-10:30
ConflictClassRows ==
    << ClassRow(0, 540, 720, TRUE, FALSE),
       ClassRow(0, 570, 600, TRUE, FALSE),
       ClassRow(0, 630, 660, TRUE, FALSE),
       ClassRow(0, 540, 600, TRUE, FALSE),
       ClassRow(0, 570, 630, TRUE, FALSE),
       ClassRow(0, 600, 660, TRUE, FALSE),
       ClassRow(0, 540, 720, TRUE, TRUE),
       ClassRow(0, 540, 720, FALSE, FALSE),
       ClassRow(1, 540, 600, TRUE, FALSE),
       ClassRow(1, 570, 630, TRUE, FALSE) >>

InitConflicts ==
    /\ classes \in {WithClassIds(t) : t \in TablesOf(ConflictClassRows, MaxConflictClasses)}
    /\ tasks = << >>
    /\ now = DateTime(RunToday, 540)
    /\ due_is_str = FALSE
    /\ Idle

\* scheduler.py detect_scheduling_conflicts; the call remembers the table of
\* notifications it found and, when the call before it was the same, its result
DetectSchedulingConflicts ==
    /\ Len(notifications) + Len(detect_scheduling_conflicts) <= MaxNotifications
    /\ notifications' = NotifyConflicts(notifications, detect_scheduling_conflicts)
    /\ call' = [op |-> "detect_scheduling_conflicts",
                result |-> detect_scheduling_conflicts,
                notifications_before |-> notifications,
                previous |-> IF call.op = "detect_scheduling_conflicts"
                             THEN <<call.result>>
                             ELSE << >>]
    /\ UNCHANGED <<classes, tasks, now, due_is_str, run_vars, run2>>

\* the cancel buttons of app.py (lines 226-228, 302-304), shown for a listed class
\* that is not cancelled, and cancel_class
CancelClass ==
    /\ Len(notifications) < MaxNotifications
    /\ \E k \in 1..Len(classes) :
          /\ classes[k].is_active /\ ~classes[k].is_cancelled
          /\ classes' = cancel_class(classes, classes[k].class_id)
          /\ notifications' = create_notification(notifications, "class_cancelled",
                                                  classes[k].class_id, NULL)
          /\ call' = [op |-> "cancel_class", class_id |-> classes[k].class_id]
    /\ UNCHANGED <<tasks, now, due_is_str, run_vars, run2>>

NextConflicts ==
    \/ DetectSchedulingConflicts
    \/ CancelClass

SpecConflicts == InitConflicts /\ [][NextConflicts]_vars

-----------------------------------------------------------------------------
(* check_time_conflict and the operations on the timetable *)

\* database.py lines 294-298, the three alternatives of the WHERE clause
TimeConflict(c, start_time, end_time) ==
    \/ c.start_time <= start_time /\ c.end_time > start_time
    \/ c.start_time < end_time /\ c.end_time >= end_time
    \/ c.start_time >= start_time /\ c.end_time <= end_time

\* check_time_conflict: (len(conflicts) > 0, conflicts); an exclude_class_id of
\* None is not applied
check_time_conflict(day_of_week, start_time, end_time, exclude_class_id) ==
    LET conflicts ==
            SelectSeq(classes, LAMBDA c :
                /\ c.day_of_week = day_of_week
                /\ c.is_active
                /\ ~c.is_cancelled
                /\ TimeConflict(c, start_time, end_time)
                /\ (exclude_class_id # NULL /\ exclude_class_id # 0)
                      => c.class_id # exclude_class_id)
    IN  [has_conflict |-> Len(conflicts) > 0, conflicts |-> conflicts]

\* add_class: the INSERT of one row; is_active and is_cancelled take their defaults
add_class(table, day_of_week, start_time, end_time) ==
    Append(table, [class_id |-> Len(table) + 1, day_of_week |-> day_of_week,
                   start_time |-> start_time, end_time |-> end_time,
                   is_active |-> TRUE, is_cancelled |-> FALSE])

\* update_class: the UPDATE of one row, the flags untouched
update_class(table, class_id, day_of_week, start_time, end_time) ==
    [k \in 1..Len(table) |->
        IF table[k].class_id = class_id
        THEN [table[k] EXCEPT !.day_of_week = day_of_week,
                              !.start_time = start_time,
                              !.end_time = end_time]
        ELSE table[k]]

\* delete_class: the soft delete of one row
delete_class(table, class_id) ==
    [k \in 1..Len(table) |->
        IF table[k].class_id = class_id
        THEN [table[k] EXCEPT !.is_active = FALSE]
        ELSE table[k]]

\* reschedule_class leaving the cancellation as it is
reschedule_class_KeepCancelled(table, class_id, new_day, new_start_time, new_end_time) ==
    [k \in 1..Len(table) |->
        IF table[k].class_id = class_id
        THEN [table[k] EXCEPT !.day_of_week = new_day,
                              !.start_time = new_start_time,
                              !.end_time = new_end_time]
        ELSE table[k]]

\* reschedule_class: the UPDATE of one row, which also lifts a cancellation
reschedule_class(table, class_id, new_day, new_start_time, new_end_time) ==
    [k \in 1..Len(table) |->
        IF table[k].class_id = class_id
        THEN [table[k] EXCEPT !.day_of_week = new_day,
                              !.start_time = new_start_time,
                              !.end_time = new_end_time,
                              !.is_cancelled = FALSE]
        ELSE table[k]]

\* the days and the entries of TIME_SLOTS (09:00, 10:00, 11:00) the forms are
\* filled in with; start and end are chosen independently
FormDays == {0, 1}
FormTimes == {540, 600, 660}

\* get_all_classes(include_cancelled=False): the classes the edit tab lists
Listed(c) == c.is_active /\ ~c.is_cancelled

\* the timetable is empty, nothing is stored yet
InitClasses ==
    /\ classes = << >>
    /\ tasks = << >>
    /\ now = DateTime(RunToday, 540)
    /\ due_is_str = FALSE
    /\ Idle

\* app.py lines 329-353: the add-class form submitted with its required fields
\* filled in; the class is stored unless check_time_conflict reports a conflict
AddClassForm ==
    /\ Len(classes) < MaxStoredClasses
    /\ \E day \in FormDays, start_time \in FormTimes, end_time \in FormTimes :
          IF check_time_conflict(day, start_time, end_time, NULL).has_conflict
          THEN UNCHANGED classes
          ELSE classes' = add_class(classes, day, start_time, end_time)
    /\ UNCHANGED <<tasks, notifications, now, due_is_str, run_vars, call, run2>>

\* app.py lines 401-410: the edit form of a listed class submitted with Update
UpdateClassForm ==
    /\ \E k \in 1..Len(classes), day \in FormDays,
          start_time \in FormTimes, end_time \in FormTimes :
          /\ Listed(classes[k])
          /\ classes' = update_class(classes, classes[k].class_id, day, start_time, end_time)
    /\ UNCHANGED <<tasks, notifications, now, due_is_str, run_vars, call, run2>>

\* app.py lines 412-415: the edit form of a listed class submitted with Delete
DeleteClassForm ==
    /\ \E k \in 1..Len(classes) :
          /\ Listed(classes[k])
          /\ classes' = delete_class(classes, classes[k].class_id)
    /\ UNCHANGED <<tasks, notifications, now, due_is_str, run_vars, call, run2>>

\* the cancel buttons, as CancelClass, the notifications capped for this
\* specification
CancelListedClass ==
    /\ Len(notifications) < MaxClassNotifications
    /\ \E k \in 1..Len(classes) :
          /\ Listed(classes[k])
          /\ classes' = cancel_class(classes, classes[k].class_id)
          /\ notifications' = create_notification(notifications, "class_cancelled",
                                                  classes[k].class_id, NULL)
    /\ UNCHANGED <<tasks, now, due_is_str, run_vars, call, run2>>

\* database.py reschedule_class, called for any stored class
RescheduleClass ==
    /\ Len(notifications) < MaxClassNotifications
    /\ \E k \in 1..Len(classes), new_day \in FormDays,
          new_start_time \in FormTimes, new_end_time \in FormTimes :
          /\ classes' = reschedule_class(classes, classes[k].class_id, new_day,
                                         new_start_time, new_end_time)
          /\ notifications' = create_notification(notifications, "class_rescheduled",
                                                  classes[k].class_id, NULL)
    /\ UNCHANGED <<tasks, now, due_is_str, run_vars, call, run2>>

NextClasses ==
    \/ AddClassForm
    \/ UpdateClassForm
    \/ DeleteClassForm
    \/ CancelListedClass
    \/ RescheduleClass

SpecClasses == InitClasses /\ [][NextClasses]_vars

\* every pair of form times, start before end or not, as a class of Monday, and
\* classes that do not count: cancelled, deleted, of Tuesday
CheckClassRows ==
    LET pairs == SetToSeq(FormTimes \X FormTimes)
    IN  [k \in 1..Len(pairs) |-> ClassRow(0, pairs[k][1], pairs[k][2], TRUE, FALSE)]
        \o << ClassRow(0, 540, 660, TRUE, TRUE),
              ClassRow(0, 540, 660, FALSE, FALSE),
              ClassRow(1, 540, 660, TRUE, FALSE) >>

InitCheck ==
    /\ classes \in {WithClassIds(t) : t \in TablesOf(CheckClassRows, MaxCheckClasses)}
    /\ tasks = << >>
    /\ now = DateTime(RunToday, 540)
    /\ due_is_str = FALSE
    /\ Idle

CallCheckTimeConflict ==
    /\ \E start_time \in FormTimes, end_time \in FormTimes :
          call' = [op |-> "check_time_conflict", day_of_week |-> 0,
                   start_time |-> start_time, end_time |-> end_time,
                   result |-> check_time_conflict(0, start_time, end_time, NULL)]
    /\ UNCHANGED <<classes, tasks, notifications, now, due_is_str, run_vars, run2>>

SpecCheck == InitCheck /\ [][CallCheckTimeConflict]_vars

-----------------------------------------------------------------------------
(* The functions of database.py that write the timetable, called directly *)

\* the arguments of the calls: Monday or Tuesday, 09:00-10:00 or 09:30-11:00
EditDays == {0, 1}
EditIntervals == {<<540, 600>>, <<570, 660>>}

\* an empty timetable; one task assigned to Monday 08:00-09:30 by a run on that
\* timetable, one task not assigned
InitEdits ==
    /\ classes = << >>
    /\ tasks = WithTaskIds(<< TaskRow("High", NULL, 90, FALSE, RunToday, 480, 570),
                              TaskRow("Low", NULL, 60, FALSE, NULL, NULL, NULL) >>)
    /\ now = DateTime(RunToday, 540)
    /\ due_is_str = FALSE
    /\ Idle

\* add_class taking back the assignment of every task the new class overlaps
CallAddClassRevalidating ==
    /\ Len(classes) < MaxEditClasses
    /\ \E day \in EditDays, interval \in EditIntervals :
          /\ classes' = add_class(classes, day, interval[1], interval[2])
          /\ tasks' = [id \in 1..Len(tasks) |->
                          IF /\ tasks[id].scheduled_date # NULL
                             /\ Weekday(tasks[id].scheduled_date) = day
                             /\ tasks[id].scheduled_start_time < interval[2]
                             /\ interval[1] < tasks[id].scheduled_end_time
                          THEN [tasks[id] EXCEPT !.scheduled_date = NULL,
                                                 !.scheduled_start_time = NULL,
                                                 !.scheduled_end_time = NULL]
                          ELSE tasks[id]]
    /\ call' = [op |-> "add_class"]
    /\ UNCHANGED <<notifications, now, due_is_str, run_vars, run2>>

CallAddClass ==
    /\ Len(classes) < MaxEditClasses
    /\ \E day \in EditDays, interval \in EditIntervals :
          classes' = add_class(classes, day, interval[1], interval[2])
    /\ call' = [op |-> "add_class"]
    /\ UNCHANGED <<tasks, notifications, now, due_is_str, run_vars, run2>>

CallUpdateClass ==
    /\ \E k \in 1..Len(classes), day \in EditDays, interval \in EditIntervals :
          classes' = update_class(classes, classes[k].class_id, day,
                                  interval[1], interval[2])
    /\ call' = [op |-> "update_class"]
    /\ UNCHANGED <<tasks, notifications, now, due_is_str, run_vars, run2>>

CallDeleteClass ==
    /\ \E k \in 1..Len(classes) :
          classes' = delete_class(classes, classes[k].class_id)
    /\ call' = [op |-> "delete_class"]
    /\ UNCHANGED <<tasks, notifications, now, due_is_str, run_vars, run2>>

CallCancelClass ==
    /\ Len(notifications) < MaxEditNotifications
    /\ \E k \in 1..Len(classes) :
          /\ classes' = cancel_class(classes, classes[k].class_id)
          /\ notifications' = create_notification(notifications, "class_cancelled",
                                                  classes[k].class_id, NULL)
    /\ call' = [op |-> "cancel_class"]
    /\ UNCHANGED <<tasks, now, due_is_str, run_vars, run2>>

CallRescheduleClass ==
    /\ Len(notifications) < MaxEditNotifications
    /\ \E k \in 1..Len(classes), new_day \in EditDays, interval \in EditIntervals :
          /\ classes' = reschedule_class(classes, classes[k].class_id, new_day,
                                         interval[1], interval[2])
          /\ notifications' = create_notification(notifications, "class_rescheduled",
                                                  classes[k].class_id, NULL)
    /\ call' = [op |-> "reschedule_class"]
    /\ UNCHANGED <<tasks, now, due_is_str, run_vars, run2>>

NextEdits ==
    \/ CallAddClass
    \/ CallUpdateClass
    \/ CallDeleteClass
    \/ CallCancelClass
    \/ CallRescheduleClass

SpecEdits == InitEdits /\ [][NextEdits]_vars

-----------------------------------------------------------------------------
(* get_daily_schedule *)

\* time.max, 23:59:59.999999: later than every minute of the day
TimeMax == 1440

RECURSIVE InsertByStartNullsLast(_, _)
InsertByStartNullsLast(s, x) ==
    LET key(t) == IF t.scheduled_start_time = NULL THEN TimeMax
                  ELSE t.scheduled_start_time
    IN  IF s = << >> THEN <<x>>
        ELSE IF key(Head(s)) <= key(x)
             THEN <<Head(s)>> \o InsertByStartNullsLast(Tail(s), x)
             ELSE <<x>> \o s

RECURSIVE OrderedByStartNullsLast(_)
\* ORDER BY scheduled_start_time NULLS LAST (rows with the same start time
\* come in key order)
OrderedByStartNullsLast(rows) ==
    IF rows = << >> THEN << >>
    ELSE InsertByStartNullsLast(OrderedByStartNullsLast(SubSeq(rows, 1, Len(rows) - 1)),
                                rows[Len(rows)])

\* SELECT * FROM tasks WHERE scheduled_date = date ORDER BY scheduled_start_time NULLS LAST
get_tasks_by_date(date) ==
    OrderedByStartNullsLast(SelectSeq(tasks, LAMBDA t : t.scheduled_date = date))

RECURSIVE InsertByTime(_, _)
\* key=lambda x: x['time'] if x['time'] else time.max
InsertByTime(s, x) ==
    LET key(e) == IF e.time = NULL THEN TimeMax ELSE e.time
    IN  IF s = << >> THEN <<x>>
        ELSE IF key(Head(s)) <= key(x)
             THEN <<Head(s)>> \o InsertByTime(Tail(s), x)
             ELSE <<x>> \o s

RECURSIVE SortedByTime(_)
\* schedule.sort(key=...): stable
SortedByTime(schedule) ==
    IF schedule = << >> THEN << >>
    ELSE InsertByTime(SortedByTime(SubSeq(schedule, 1, Len(schedule) - 1)),
                      schedule[Len(schedule)])

\* lines 294-305: one entry for every class get_classes_by_day returned
ClassEntries(day_classes) ==
    [i \in 1..Len(day_classes) |->
        [type |-> "class", time |-> day_classes[i].start_time,
         end_time |-> day_classes[i].end_time, id |-> day_classes[i].class_id]]

\* lines 307-319: one entry for every task of the date that has a start time
\* (a time object is true whatever its value, midnight included)
TaskEntries(date_tasks) ==
    LET timed == SelectSeq(date_tasks, LAMBDA t : t.scheduled_start_time # NULL)
    IN  [i \in 1..Len(timed) |->
            [type |-> "task", time |-> timed[i].scheduled_start_time,
             end_time |-> timed[i].scheduled_end_time, id |-> timed[i].task_id]]

\* get_daily_schedule returning the classes followed by the tasks
get_daily_schedule_Unsorted(date) ==
    ClassEntries(get_classes_by_day(Weekday(date))) \o TaskEntries(get_tasks_by_date(date))

\* the list get_daily_schedule returns
get_daily_schedule(date) ==
    SortedByTime(ClassEntries(get_classes_by_day(Weekday(date)))
                    \o TaskEntries(get_tasks_by_date(date)))

\* Mon 09:00-10:00, 10:00-11:00; Mon 08:00-09:00 cancelled, and deleted;
\* Tue 09:00-10:00
DailyClassRows ==
    << ClassRow(0, 540, 600, TRUE, FALSE),
       ClassRow(0, 600, 660, TRUE, FALSE),
       ClassRow(0, 480, 540, TRUE, TRUE),
       ClassRow(0, 480, 540, FALSE, FALSE),
       ClassRow(1, 540, 600, TRUE, FALSE) >>

\* tasks assigned to Monday 08:00-09:30, 09:00-10:00, 00:00-01:00 and, completed,
\* 10:00-11:00; one stored by schedule_task with Monday and no times; one
\* assigned to Tuesday 09:00-10:00; one without an assignment
DailyTaskRows ==
    << TaskRow("High", NULL, 90, FALSE, RunToday, 480, 570),
       TaskRow("Medium", NULL, 60, FALSE, RunToday, 540, 600),
       TaskRow("Low", NULL, 60, FALSE, RunToday, 0, 60),
       TaskRow("Low", NULL, 60, TRUE, RunToday, 600, 660),
       TaskRow("Low", NULL, 60, FALSE, RunToday, NULL, NULL),
       TaskRow("Low", NULL, 60, FALSE, RunToday + 1, 540, 600),
       TaskRow("Low", NULL, 60, FALSE, NULL, NULL, NULL) >>

InitDaily ==
    /\ classes \in {WithClassIds(t) : t \in TablesOf(DailyClassRows, MaxDailyClasses)}
    /\ tasks \in {WithTaskIds(t) : t \in TablesOf(DailyTaskRows, MaxDailyTasks)}
    /\ now = DateTime(RunToday, 540)
    /\ due_is_str = FALSE
    /\ Idle

\* app.py line 151: the schedule of the selected date, Monday or Tuesday
CallGetDailySchedule ==
    /\ \E date \in {RunToday, RunToday + 1} :
          call' = [op |-> "get_daily_schedule", date |-> date,
                   result |-> get_daily_schedule(date)]
    /\ UNCHANGED <<classes, tasks, notifications, now, due_is_str, run_vars, run2>>

SpecDaily == InitDaily /\ [][CallGetDailySchedule]_vars

-----------------------------------------------------------------------------
(* Properties *)

\* half-open intervals [s1,e1) and [s2,e2) share a point
Overlaps(s1, e1, s2, e2) == s1 < e2 /\ s2 < e1

\* the ClassSessions of the list have start < end, are sorted by start time and do
\* not overlap pairwise
SortedNonOverlapping(cs) ==
    /\ \A i \in 1..Len(cs) : cs[i].start_time < cs[i].end_time
    /\ \A i, j \in 1..Len(cs) :
          i < j => /\ cs[i].start_time <= cs[j].start_time
                   /\ ~Overlaps(cs[i].start_time, cs[i].end_time,
                                cs[j].start_time, cs[j].end_time)

InsideWindow(cs) ==
    \A i \in 1..Len(cs) : 480 <= cs[i].start_time /\ cs[i].end_time <= 1260

\* C1: for a day whose class list is sorted by start time and pairwise
\* non-overlapping, every free slot get_free_slots returns is at least as long as
\* the requested duration and overlaps no class of the day
C1_SlotsFitAndAvoidClasses ==
    call.op = "get_free_slots" =>
        LET cs == get_classes_by_day(call.day_of_week)
        IN  SortedNonOverlapping(cs) =>
                \A k \in 1..Len(call.result) :
                    /\ call.result[k].duration >= call.duration_minutes
                    /\ \A i \in 1..Len(cs) :
                          ~Overlaps(call.result[k].start, call.result[k].end,
                                    cs[i].start_time, cs[i].end_time)

\* get_free_slots returned two slots or more around two non-overlapping classes,
\* and left out a gap that was too short
C1_Witness ==
    /\ call.op = "get_free_slots"
    /\ call.duration_minutes = 150
    /\ Len(get_classes_by_day(0)) = 2
    /\ SortedNonOverlapping(get_classes_by_day(0))
    /\ get_classes_by_day(0)[1].start_time = 540
    /\ get_classes_by_day(0)[1].end_time = 630
    /\ Len(call.result) = 2

\* the gaps of the window left by the classes cs, first to last
GapsOf(cs) ==
    [k \in 1..(Len(cs) + 1) |->
        LET from == IF k = 1 THEN 480 ELSE cs[k - 1].end_time
            to == IF k = Len(cs) + 1 THEN 1260 ELSE cs[k].start_time
        IN  [start |-> from, end |-> to, duration |-> to - from]]

\* C5: for a sorted, non-overlapping class list inside the window get_free_slots
\* returns exactly the gaps (window start to first class, between consecutive
\* classes, last class to window end) of at least the requested length, in
\* ascending order, each with its length in minutes; classes 09:00-10:30 and
\* 13:00-14:00 with duration 60 give 08:00-09:00, 10:30-13:00, 14:00-21:00
C5_SlotsAreTheGaps ==
    call.op = "get_free_slots" =>
        LET cs == get_classes_by_day(call.day_of_week)
        IN  /\ (SortedNonOverlapping(cs) /\ InsideWindow(cs)) =>
                  call.result = SelectSeq(GapsOf(cs),
                                          LAMBDA g : g.duration >= call.duration_minutes)
            /\ ( /\ Len(cs) = 2
                 /\ cs[1].start_time = 540 /\ cs[1].end_time = 630
                 /\ cs[2].start_time = 780 /\ cs[2].end_time = 840
                 /\ call.duration_minutes = 60 ) =>
                  call.result = << [start |-> 480, end |-> 540, duration |-> 60],
                                   [start |-> 630, end |-> 780, duration |-> 150],
                                   [start |-> 840, end |-> 1260, duration |-> 420] >>

\* the call of the example, answered with its three slots
C5_Witness ==
    /\ call.op = "get_free_slots"
    /\ call.duration_minutes = 60
    /\ Len(classes) = 2
    /\ classes[1].start_time = 540 /\ classes[1].end_time = 630
    /\ classes[2].start_time = 780 /\ classes[2].end_time = 840
    /\ Len(call.result) = 3
    /\ call.result[1].duration = 60

ClaimedBase(priority) ==
    CASE priority = "Urgent" -> 100
      [] priority = "High" -> 75
      [] priority = "Medium" -> 50
      [] priority = "Low" -> 25
      [] OTHER -> 25

\* the bonus by the time left until the due date
ClaimedBonus(due, clock) ==
    IF due = NULL THEN 0
    ELSE IF due < clock THEN 50
    ELSE IF due - clock < 24 * 60 THEN 40
    ELSE IF due - clock < 2 * 24 * 60 THEN 30
    ELSE IF due - clock < 4 * 24 * 60 THEN 20
    ELSE IF due - clock < 8 * 24 * 60 THEN 10
    ELSE 0

ClaimedScore(task, clock) == ClaimedBase(task.priority) + ClaimedBonus(task.due_date, clock)

\* C6: calculate_priority_score is base (Urgent 100, High 75, Medium 50, Low 25,
\* other 25) plus bonus (+50 due < now, +40 zero whole days left, +30 one day,
\* +20 two or three, +10 four to seven, +0 beyond or no due date); for equal due
\* dates Urgent >= High >= Medium >= Low
C6_ScoreIsBasePlusBonus ==
    call.op = "calculate_priority_score" =>
        /\ call.result = ClaimedScore(call.task, now)
        /\ LET as(p) == calculate_priority_score([call.task EXCEPT !.priority = p])
           IN  as("Urgent") >= as("High") /\ as("High") >= as("Medium")
                  /\ as("Medium") >= as("Low")

\* a task due earlier today scored as overdue
C6_Witness ==
    /\ call.op = "calculate_priority_score"
    /\ call.task.priority = "High"
    /\ call.task.due_date # NULL
    /\ call.task.due_date < now
    /\ call.task.due_date \div (24 * 60) = now \div (24 * 60)
    /\ call.result = 125

ClaimedTimeScore(start) ==
    IF 14 * 60 <= start /\ start < 18 * 60 THEN 10
    ELSE IF 9 * 60 <= start /\ start < 12 * 60 THEN 8
    ELSE IF 12 * 60 <= start /\ start < 14 * 60 THEN 6
    ELSE IF 18 * 60 <= start /\ start < 21 * 60 THEN 5
    ELSE 2

\* thirty times the combined score of a slot for a task of the given duration
ClaimedScore30(slot, duration) ==
    LET mismatch == IF slot.duration >= duration THEN slot.duration - duration
                    ELSE duration - slot.duration
    IN  30 * ClaimedTimeScore(slot.start)
            + (IF mismatch >= 300 THEN 0 ELSE 300 - mismatch)

ClassesOn(date) ==
    {c \in {classes[i] : i \in 1..Len(classes)} :
        c.day_of_week = date % 7 /\ c.is_active /\ ~c.is_cancelled}

\* C2: every assignment auto_schedule_tasks commits lies inside the window
\* 08:00-21:00 and overlaps no active, non-cancelled class of the weekday of its
\* date, whatever classes are stored
C2_AssignmentInWindowClearOfClasses ==
    \A k \in 1..Len(scheduled) :
        LET a == scheduled[k]
        IN  /\ 480 <= a.start /\ a.start <= a.end /\ a.end <= 1260
            /\ \A c \in ClassesOn(a.date) :
                  ~Overlaps(a.start, a.end, c.start_time, c.end_time)

\* C3: two tasks assigned to the same date in one run never get overlapping
\* intervals
C3_NoIntervalGivenTwice ==
    \A j, k \in 1..Len(scheduled) :
        (j < k /\ scheduled[j].date = scheduled[k].date) =>
            ~Overlaps(scheduled[j].start, scheduled[j].end,
                      scheduled[k].start, scheduled[k].end)

\* the free slots of the example, found for a 60-minute task on the date of an
\* assignment
ExampleSlots(a) ==
    /\ a.task.estimated_duration = 60
    /\ get_free_slots(a.date % 7, 60)
          = << [start |-> 480, end |-> 540, duration |-> 60],
               [start |-> 630, end |-> 780, duration |-> 150],
               [start |-> 840, end |-> 1260, duration |-> 420] >>

\* C4 as stated: of the slots 08:00-09:00, 10:30-13:00, 14:00-21:00 a 60-minute
\* task gets the last, the assignment being 14:00-15:00
C4_ExampleGets1400 ==
    \A k \in 1..Len(scheduled) :
        ExampleSlots(scheduled[k]) => scheduled[k].start = 840 /\ scheduled[k].end = 900

\* C4 amended: of the slots 08:00-09:00, 10:30-13:00, 14:00-21:00 a 60-minute
\* task gets the second (scores 12, 15, 10), the assignment being 10:30-11:30
C4_ExampleGets1030 ==
    \A k \in 1..Len(scheduled) :
        ExampleSlots(scheduled[k]) => scheduled[k].start = 630 /\ scheduled[k].end = 690

\* a 60-minute task was assigned on a day with the slots of the example
C4_Witness ==
    \E k \in 1..Len(scheduled) : ExampleSlots(scheduled[k])

\* the run got as far as sorting its candidates
Sorted == pc \in {"next_task", "try_day", "raised", "returned"} /\ sorted_tasks # << >>

\* the position of a row in a list of rows with distinct task ids
PositionIn(list, task_id) == CHOOSE p \in 1..Len(list) : list[p].task_id = task_id

Committed(task_id) ==
    \E k \in 1..Len(scheduled) : scheduled[k].task.task_id = task_id

Rejected(task_id) ==
    \E n \in 1..Len(notifications) :
        /\ notifications[n].notification_type = "schedule_conflict"
        /\ notifications[n].related_task_id = task_id

\* C8: the candidates are processed by descending score, equal scores in the
\* order of the input list, and a task is committed or rejected before any task
\* ranked lower is considered: once a Low task without due date is considered,
\* an Urgent task due today has its place on day offset 0
C8_DescendingScoreOneAtATime ==
    Sorted =>
        /\ Len(sorted_tasks) = Len(unscheduled_tasks)
        /\ \A p \in 1..Len(unscheduled_tasks) :
              \E q \in 1..Len(sorted_tasks) : sorted_tasks[q] = unscheduled_tasks[p]
        /\ \A p, q \in 1..Len(sorted_tasks) :
              p < q =>
                /\ ClaimedScore(sorted_tasks[p], now) >= ClaimedScore(sorted_tasks[q], now)
                /\ ClaimedScore(sorted_tasks[p], now) = ClaimedScore(sorted_tasks[q], now)
                      => PositionIn(unscheduled_tasks, sorted_tasks[p].task_id)
                            < PositionIn(unscheduled_tasks, sorted_tasks[q].task_id)
        /\ \A p \in 1..Len(sorted_tasks) :
              LET id == sorted_tasks[p].task_id
              IN  /\ p < task_pos => (Committed(id) /\ ~Rejected(id))
                                        \/ (Rejected(id) /\ ~Committed(id))
                  /\ p > task_pos => ~Committed(id) /\ ~Rejected(id) /\ probed[p] = {}
        /\ \A p, q \in 1..Len(sorted_tasks) :
              ( /\ sorted_tasks[p].priority = "Urgent"
                /\ sorted_tasks[p].due_date # NULL
                /\ sorted_tasks[p].due_date \div (24 * 60) = today
                /\ sorted_tasks[p].due_date >= now
                /\ sorted_tasks[q].priority = "Low"
                /\ sorted_tasks[q].due_date = NULL
                /\ q <= task_pos
                /\ get_free_slots(today % 7, sorted_tasks[p].estimated_duration) # << >> )
              => \E k \in 1..Len(scheduled) :
                    /\ scheduled[k].task = sorted_tasks[p]
                    /\ scheduled[k].date = today

\* the Low task without due date is being considered, the Urgent task due today
\* already placed today
C8_Witness ==
    /\ pc = "try_day"
    /\ task_pos = 2
    /\ sorted_tasks[1].priority = "Urgent" /\ sorted_tasks[1].due_date # NULL
    /\ sorted_tasks[2].priority = "Low" /\ sorted_tasks[2].due_date = NULL
    /\ Len(scheduled) = 1
    /\ scheduled[1].task = sorted_tasks[1]
    /\ scheduled[1].date = today

\* the dates of a task's horizon
Horizon(task) ==
    IF task.due_date # NULL
    THEN {d \in today..(today + 7) : d <= task.due_date \div (24 * 60)}
    ELSE today..(today + 7)

\* the loop over sorted_tasks is through with position p
Over(p) == p < task_pos \/ (p = task_pos /\ pc = "raised")

\* C9: the dates searched for a task are those of today .. min(due date,
\* today + 7) with a due date and today .. today + 7 without, from day offset 0
\* on (all of them for a task left unassigned, those up to its date for an
\* assigned one), so an assignment date d has today <= d <= today + 7 and
\* d <= due date
C9_SearchedDatesAreTheHorizon ==
    Sorted =>
        \A p \in 1..Len(sorted_tasks) :
            LET task == sorted_tasks[p]
            IN  /\ probed[p] \subseteq Horizon(task)
                /\ \A d \in probed[p] : \A e \in Horizon(task) : e < d => e \in probed[p]
                /\ (Over(p) /\ ~Committed(task.task_id)) => probed[p] = Horizon(task)
                /\ \A k \in 1..Len(scheduled) :
                      scheduled[k].task = task =>
                        /\ scheduled[k].date \in probed[p]
                        /\ today <= scheduled[k].date /\ scheduled[k].date <= today + 7
                        /\ task.due_date # NULL
                              => scheduled[k].date <= task.due_date \div (24 * 60)

\* C10: an assigned task's date is the first date from today on whose weekday
\* has a free slot of the task's duration, and no later date was tried for it
C10_FirstDayWithASlot ==
    \A k \in 1..Len(scheduled) :
        LET a == scheduled[k]
            p == PositionIn(sorted_tasks, a.task.task_id)
        IN  /\ get_free_slots(a.date % 7, a.task.estimated_duration) # << >>
            /\ \A d \in today..(a.date - 1) :
                  get_free_slots(d % 7, a.task.estimated_duration) = << >>
            /\ probed[p] = today..a.date

\* a task assigned to a later day because today has no slot for it
C10_Witness ==
    \E k \in 1..Len(scheduled) :
        /\ scheduled[k].date > today
        /\ get_free_slots(today % 7, scheduled[k].task.estimated_duration) = << >>

\* how many rows of the returned list assign the task
AssignmentsOf(task_id) ==
    Cardinality({k \in 1..Len(scheduled) : scheduled[k].task.task_id = task_id})

\* how many schedule_conflict notifications name the task
RejectionsOf(task_id) ==
    Cardinality({n \in 1..Len(notifications) :
                    /\ notifications[n].notification_type = "schedule_conflict"
                    /\ notifications[n].related_task_id = task_id})

\* C11: a run ends by returning, never by an error, and when it has ended every
\* candidate task has exactly one outcome: one assignment and no notification, or
\* one schedule_conflict notification and no assignment; a task that cannot be
\* placed does not keep the tasks ranked after it from getting theirs
C11_EveryCandidateOneOutcome ==
    /\ pc # "raised"
    /\ pc = "returned" =>
          \A p \in 1..Len(unscheduled_tasks) :
              LET id == unscheduled_tasks[p].task_id
              IN  \/ /\ AssignmentsOf(id) = 1 /\ RejectionsOf(id) = 0
                     /\ tasks[id].scheduled_date # NULL
                  \/ /\ AssignmentsOf(id) = 0 /\ RejectionsOf(id) = 1
                     /\ tasks[id].scheduled_date = NULL

\* the invocation has ended
Ended == pc \in {"returned", "raised"}

\* the tasks the invocation gave up on
RejectedTasks == {id \in 1..Len(tasks) : Rejected(id)}

\* the clock readings of the day the invocation runs on
ClocksOfToday == {clock \in RunNows : DateOf(clock) = DateOf(now)}

\* C12: a run started on the same date from the same stored classes and the same
\* task list ends with the same list of assignments (task, date, start, end, in
\* the same order), the same set of rejected tasks and the same way, whatever
\* the time of day it is started at
C12_SameResultAtAnyTimeOfToday ==
    Ended =>
        \A clock \in ClocksOfToday :
            LET other == RunThrough(SortedByScoreAt(unscheduled_tasks, clock), DateOf(clock))
            IN  /\ scheduled = other.assignments
                /\ RejectedTasks = other.rejected
                /\ (pc = "raised") = other.raised

\* the last step was a call of detect_scheduling_conflicts
Detected == call.op = "detect_scheduling_conflicts"

\* the records of the call that pair class a with class b on the day
RecordsOf(day, a, b) ==
    {k \in 1..Len(call.result) :
        /\ call.result[k].day = day
        /\ call.result[k].class1 = a
        /\ call.result[k].class2 = b}

\* the day's classes are one from a1 to a2 and one from b1 to b2, in this order
DayIsPair(cs, a1, a2, b1, b2) ==
    /\ Len(cs) = 2
    /\ cs[1].start_time = a1 /\ cs[1].end_time = a2
    /\ cs[2].start_time = b1 /\ cs[2].end_time = b2

\* C13: for each weekday detect_scheduling_conflicts returns exactly one record
\* for each pair of neighbours of the day's active, non-cancelled classes sorted
\* by start whose first ends after the second starts, no record for any other
\* pair of neighbours and no other record, and it stores one schedule_conflict
\* notification per record; Monday classes 09:00-10:00 and 09:30-10:30 give
\* exactly one record, that pair
C13_OneRecordPerAdjacentOverlap ==
    Detected =>
        /\ \A day \in 0..6 :
              LET cs == get_classes_by_day(day)
              IN  /\ \A i \in 1..(Len(cs) - 1) :
                        Cardinality(RecordsOf(day, cs[i], cs[i + 1]))
                            = IF cs[i].end_time > cs[i + 1].start_time THEN 1 ELSE 0
                  /\ \A k \in 1..Len(call.result) :
                        call.result[k].day = day =>
                            \E i \in 1..(Len(cs) - 1) : k \in RecordsOf(day, cs[i], cs[i + 1])
                  /\ DayIsPair(cs, 540, 600, 570, 630) =>
                        /\ Cardinality({k \in 1..Len(call.result) :
                                           call.result[k].day = day}) = 1
                        /\ RecordsOf(day, cs[1], cs[2]) # {}
        /\ \A k \in 1..Len(call.result) : call.result[k].day \in 0..6
        /\ Len(notifications) = Len(call.notifications_before) + Len(call.result)
        /\ \A n \in 1..Len(notifications) :
              IF n <= Len(call.notifications_before)
              THEN notifications[n] = call.notifications_before[n]
              ELSE notifications[n].notification_type = "schedule_conflict"

\* the detector ran on a Monday of 09:00-10:00 and 09:30-10:30 and on a Tuesday
\* without conflict: one record, one notification
C13_Witness ==
    /\ Detected
    /\ DayIsPair(get_classes_by_day(0), 540, 600, 570, 630)
    /\ Len(call.result) = 1
    /\ call.result[1].class1.start_time = 540
    /\ call.result[1].class2.start_time = 570
    /\ Len(notifications) = Len(call.notifications_before) + 1

\* C14: the detector is not pairwise-complete: two classes of a day that are
\* not neighbours in the order by start are in no record together, also when
\* they overlap; of 09:00-12:00, 09:30-10:00 and 10:30-11:00 the first and the
\* third overlap and are not reported
C14_NonAdjacentPairsUnreported ==
    Detected =>
        \A day \in 0..6 :
            LET cs == get_classes_by_day(day)
            IN  \A i, j \in 1..Len(cs) :
                    i + 1 < j =>
                        /\ RecordsOf(day, cs[i], cs[j]) = {}
                        /\ RecordsOf(day, cs[j], cs[i]) = {}

\* the detector ran on 09:00-12:00, 09:30-10:00, 10:30-11:00: the first and the
\* third overlap, and the one record pairs the first with the second
C14_Witness ==
    /\ Detected
    /\ LET cs == get_classes_by_day(0)
       IN  /\ Len(cs) = 3
           /\ cs[1].start_time = 540 /\ cs[1].end_time = 720
           /\ cs[2].start_time = 570 /\ cs[2].end_time = 600
           /\ cs[3].start_time = 630 /\ cs[3].end_time = 660
           /\ Overlaps(cs[1].start_time, cs[1].end_time, cs[3].start_time, cs[3].end_time)
           /\ call.result = <<[day |-> 0, class1 |-> cs[1], class2 |-> cs[2],
                               type |-> "overlap"]>>

C16_StoredClassesStartBeforeEnd ==
    \A k \in 1..Len(classes) : classes[k].start_time < classes[k].end_time

\* C17: in every state reached through the add-class form (guarded by
\* check_time_conflict), update_class, cancel_class, reschedule_class and
\* delete_class no two active, non-cancelled classes of the same day overlap
C17_NoTwoActiveClassesOverlap ==
    \A i, j \in 1..Len(classes) :
        ( /\ i # j
          /\ Listed(classes[i]) /\ Listed(classes[j])
          /\ classes[i].day_of_week = classes[j].day_of_week )
        => ~Overlaps(classes[i].start_time, classes[i].end_time,
                     classes[j].start_time, classes[j].end_time)

\* C18: check_time_conflict reports a stored active, non-cancelled class [s, e)
\* of the day as a conflict of the candidate [S, E) exactly when s < E and
\* S < e, so intervals that only touch (e = S or E = s) do not conflict, and it
\* reports a conflict exactly when it reports a class
C18_ConflictIffHalfOpenOverlap ==
    call.op = "check_time_conflict" =>
        /\ \A k \in 1..Len(classes) :
              (\E n \in 1..Len(call.result.conflicts) : call.result.conflicts[n] = classes[k])
              <=> /\ classes[k].day_of_week = call.day_of_week
                  /\ Listed(classes[k])
                  /\ classes[k].start_time < call.end_time
                  /\ call.start_time < classes[k].end_time
        /\ call.result.has_conflict <=> call.result.conflicts # << >>

\* C19: whatever classes are stored, every free slot get_free_slots returns lies
\* in the day window (08:00 <= start < end <= 21:00), and the list is in
\* ascending order of start with pairwise disjoint slots
C19_SlotsInWindowAscendingDisjoint ==
    call.op = "get_free_slots" =>
        /\ \A k \in 1..Len(call.result) :
              /\ 480 <= call.result[k].start
              /\ call.result[k].start < call.result[k].end
              /\ call.result[k].end <= 1260
        /\ \A i, j \in 1..Len(call.result) :
              i < j => /\ call.result[i].start < call.result[j].start
                       /\ call.result[i].end <= call.result[j].start

\* C20: a run assigns only tasks that are not completed and have no assignment
\* when it starts: no step changes the row of a completed task or of a task
\* that has an assignment, no step adds or removes a row, and a task added to
\* the returned list was neither completed nor assigned before the step
C20_OnlyUnassignedOpenTasksChange ==
    [][ /\ Len(tasks') = Len(tasks)
        /\ \A id \in 1..Len(tasks) :
              (tasks[id].is_completed \/ tasks[id].scheduled_date # NULL)
                  => tasks'[id] = tasks[id]
        /\ \A k \in 1..Len(scheduled') :
              k > Len(scheduled) =>
                  LET id == scheduled'[k].task.task_id
                  IN  /\ ~tasks[id].is_completed
                      /\ tasks[id].scheduled_date = NULL
                      /\ ~scheduled'[k].task.is_completed
                      /\ scheduled'[k].task.scheduled_date = NULL ]_vars

\* a run has returned one assignment; the other task of the table had its
\* assignment before the run and still has it
C20_Witness ==
    /\ pc = "returned"
    /\ Len(scheduled) = 1
    /\ \E id \in 1..Len(tasks) :
          /\ ~Committed(id)
          /\ tasks[id].scheduled_date = RunToday
          /\ tasks[id].scheduled_start_time = 840
          /\ tasks[id].scheduled_end_time = 900

\* C21: assignments are committed one task at a time and never rolled back:
\* the assignment a run has written for a task is the one in storage in every
\* later state of the run, also after a later task was rejected and after the
\* run was abandoned by an error
C21_CommittedAssignmentsStay ==
    \A k \in 1..Len(scheduled) :
        LET id == scheduled[k].task.task_id
        IN  /\ tasks[id].scheduled_date = scheduled[k].date
            /\ tasks[id].scheduled_start_time = scheduled[k].start
            /\ tasks[id].scheduled_end_time = scheduled[k].end

\* the run assigned its first task, rejected its second and returned; the
\* assignment of the first is stored
C21_Witness ==
    /\ pc = "returned"
    /\ Len(sorted_tasks) = 2
    /\ Len(scheduled) = 1
    /\ scheduled[1].task = sorted_tasks[1]
    /\ Rejected(sorted_tasks[2].task_id)
    /\ tasks[sorted_tasks[1].task_id].scheduled_date = scheduled[1].date

\* the list an invocation returns when it runs alone on the candidates it fetched
AloneOn(candidates) ==
    RunThrough(SortedByScoreAt(candidates, now), DateOf(now)).assignments

\* C22: two interleaved invocations are not coordinated: each returns what it
\* would return alone on the candidates it fetched, whatever the other has
\* written meanwhile, and each writes its assignment over the one it finds; so
\* a task both have fetched is committed by both and returned by both
C22_EachRunAsIfAlone ==
    /\ pc = "returned" => scheduled = AloneOn(unscheduled_tasks)
    /\ run2.pc = "returned" => run2.scheduled = AloneOn(run2.unscheduled_tasks)
    /\ \A k \in 1..Len(run2.scheduled) :
          LET id == run2.scheduled[k].task.task_id
          IN  /\ tasks[id].scheduled_date = run2.scheduled[k].date
              /\ tasks[id].scheduled_start_time = run2.scheduled[k].start
              /\ tasks[id].scheduled_end_time = run2.scheduled[k].end
    /\ \A id \in run2.overwrote : Committed(id)

\* both invocations have returned, both lists hold the same task, and the
\* second wrote its assignment over the one the first had stored
C22_Witness ==
    /\ pc = "returned"
    /\ run2.pc = "returned"
    /\ \E k \in 1..Len(scheduled), j \in 1..Len(run2.scheduled) :
          /\ scheduled[k].task.task_id = run2.scheduled[j].task.task_id
          /\ scheduled[k].task.task_id \in run2.overwrote
          /\ tasks[scheduled[k].task.task_id].scheduled_date = run2.scheduled[j].date

\* C23: add_class, update_class, reschedule_class, cancel_class and
\* delete_class never touch the tasks: no call changes any task's row, its
\* scheduled date, start and end included; so an assigned task can come to
\* overlap an active, non-cancelled class of its weekday
C23_ClassOperationsLeaveTasks ==
    [][tasks' = tasks]_vars

\* the task assigned to Monday 08:00-09:30 still has its assignment, and a
\* class added later is active, not cancelled, on Monday 09:00-10:00
C23_Witness ==
    /\ call.op \in {"add_class", "update_class", "reschedule_class"}
    /\ \E id \in 1..Len(tasks), k \in 1..Len(classes) :
          /\ tasks[id].scheduled_date # NULL
          /\ Listed(classes[k])
          /\ classes[k].day_of_week = tasks[id].scheduled_date % 7
          /\ Overlaps(tasks[id].scheduled_start_time, tasks[id].scheduled_end_time,
                      classes[k].start_time, classes[k].end_time)

\* C24: is_active and is_cancelled are independent: cancel_class sets
\* is_cancelled of one class and changes nothing else of the timetable,
\* is_active included; delete_class sets is_active to false and changes nothing
\* else, is_cancelled included; each is possible whatever the other flag is
C24_FlagsIndependent ==
    [][ /\ call'.op = "cancel_class" =>
              \E k \in 1..Len(classes) :
                  classes' = [classes EXCEPT ![k].is_cancelled = TRUE]
        /\ call'.op = "delete_class" =>
              \E k \in 1..Len(classes) :
                  classes' = [classes EXCEPT ![k].is_active = FALSE] ]_vars

\* one class deleted and cancelled, the other neither
C24_Witness ==
    /\ Len(classes) = 2
    /\ ~classes[1].is_active /\ classes[1].is_cancelled
    /\ classes[2].is_active /\ ~classes[2].is_cancelled

\* the boundaries a free slot of the day may have: the ends of the window and
\* the start and end times of the day's active, non-cancelled classes
SlotBoundaries(day) ==
    {DayStartMinute, DayEndMinute}
        \cup UNION { {classes[k].start_time, classes[k].end_time} :
                        k \in {i \in 1..Len(classes) :
                                  classes[i].day_of_week = day /\ Listed(classes[i])} }

\* the timetable reads of one state take no cancelled and no deleted class
\* into account
UnlistedClassesIgnored ==
    /\ \A day \in EditDays, duration \in {30, 60} :
          LET slots == get_free_slots(day, duration)
          IN  /\ \A i \in 1..Len(slots) :
                    {slots[i].start, slots[i].end} \subseteq SlotBoundaries(day)
              /\ (\A k \in 1..Len(classes) :
                     classes[k].day_of_week = day => ~Listed(classes[k]))
                    => slots = << [start |-> DayStartMinute, end |-> DayEndMinute,
                                   duration |-> DayEndMinute - DayStartMinute] >>
    /\ \A i \in 1..Len(detect_scheduling_conflicts) :
          LET c == detect_scheduling_conflicts[i]
          IN  /\ Listed(classes[c.class1.class_id])
              /\ Listed(classes[c.class2.class_id])

\* C30: a cancelled or soft-deleted class bounds no free slot and is in no
\* conflict record; reschedule_class stores the new day and times and clears
\* is_cancelled, whatever the other classes are, and leaves is_active as it is
C30_CancelledIgnoredUntilRescheduled ==
    /\ []UnlistedClassesIgnored
    /\ [][ call'.op = "reschedule_class" =>
              \E k \in 1..Len(classes), new_day \in EditDays, interval \in EditIntervals :
                  classes' = [classes EXCEPT ![k].day_of_week = new_day,
                                             ![k].start_time = interval[1],
                                             ![k].end_time = interval[2],
                                             ![k].is_cancelled = FALSE] ]_vars

\* a class that was cancelled has just been rescheduled: it is active and not
\* cancelled, no free slot of its new day reaches into its new times, and it
\* overlaps another active, non-cancelled class of that day
C30_Witness ==
    /\ call.op = "reschedule_class"
    /\ Len(notifications) = 2
    /\ notifications[1].notification_type = "class_cancelled"
    /\ notifications[2].notification_type = "class_rescheduled"
    /\ notifications[1].related_class_id = notifications[2].related_class_id
    /\ LET k == notifications[2].related_class_id
           slots == get_free_slots(classes[k].day_of_week, 30)
       IN  /\ Listed(classes[k])
           /\ \A i \in 1..Len(slots) :
                 ~Overlaps(slots[i].start, slots[i].end,
                           classes[k].start_time, classes[k].end_time)
           /\ \E j \in 1..Len(classes) :
                 /\ j # k
                 /\ Listed(classes[j])
                 /\ classes[j].day_of_week = classes[k].day_of_week
                 /\ Overlaps(classes[j].start_time, classes[j].end_time,
                             classes[k].start_time, classes[k].end_time)
                 /\ \E i \in 1..Len(detect_scheduling_conflicts) :
                       {detect_scheduling_conflicts[i].class1.class_id,
                        detect_scheduling_conflicts[i].class2.class_id} = {j, k}

\* how often the class or task with the id stands in the schedule
TimesListed(schedule, type, id) ==
    Cardinality({i \in 1..Len(schedule) : schedule[i].type = type /\ schedule[i].id = id})

\* C25: get_daily_schedule(date) holds every active, non-cancelled class of the
\* date's weekday and every task scheduled on the date with a start time, each
\* exactly once and with its own times, and nothing else; the entries are in
\* ascending order of their times, entries without a time last
C25_DailyScheduleMergedInOrder ==
    call.op = "get_daily_schedule" =>
        LET schedule == call.result
            of_day(c) == c.day_of_week = Weekday(call.date) /\ c.is_active /\ ~c.is_cancelled
            of_date(t) == t.scheduled_date = call.date /\ t.scheduled_start_time # NULL
        IN  /\ \A k \in 1..Len(classes) :
                  TimesListed(schedule, "class", k) = IF of_day(classes[k]) THEN 1 ELSE 0
            /\ \A id \in 1..Len(tasks) :
                  TimesListed(schedule, "task", id) = IF of_date(tasks[id]) THEN 1 ELSE 0
            /\ \A i \in 1..Len(schedule) :
                  \/ /\ schedule[i].type = "class"
                     /\ schedule[i].id \in 1..Len(classes)
                     /\ schedule[i].time = classes[schedule[i].id].start_time
                     /\ schedule[i].end_time = classes[schedule[i].id].end_time
                  \/ /\ schedule[i].type = "task"
                     /\ schedule[i].id \in 1..Len(tasks)
                     /\ schedule[i].time = tasks[schedule[i].id].scheduled_start_time
                     /\ schedule[i].end_time = tasks[schedule[i].id].scheduled_end_time
            /\ \A i, j \in 1..Len(schedule) :
                  i < j => \/ schedule[j].time = NULL
                           \/ /\ schedule[i].time # NULL
                              /\ schedule[i].time <= schedule[j].time

\* Monday's schedule is a task at 08:00 followed by a class at 09:00, while
\* the timetable holds a cancelled Monday class and the tasks hold one stored
\* for Monday without a start time
C25_Witness ==
    /\ call.op = "get_daily_schedule"
    /\ call.date = RunToday
    /\ Len(call.result) = 2
    /\ call.result[1].type = "task" /\ call.result[1].time = 480
    /\ call.result[2].type = "class" /\ call.result[2].time = 540
    /\ \E k \in 1..Len(classes) : classes[k].day_of_week = 0 /\ classes[k].is_cancelled
    /\ \E id \in 1..Len(tasks) :
          tasks[id].scheduled_date = RunToday /\ tasks[id].scheduled_start_time = NULL

\* the cursor of get_free_slots after the first n classes of the day
CursorAfter(day_classes, duration_minutes, n) ==
    FreeSlotsLoop(SubSeq(SortedByStart(day_classes), 1, n), duration_minutes).current_time

\* C26: during one walk of get_free_slots the cursor never decreases: after
\* each class it is at least its value before the class and at least the
\* start of the window, whether the classes overlap, are nested or start
\* before the window
C26_CursorNeverDecreases ==
    call.op = "get_free_slots" =>
        LET day_classes == get_classes_by_day(call.day_of_week)
        IN  \A n \in 1..Len(day_classes) :
                /\ CursorAfter(day_classes, call.duration_minutes, n)
                      >= CursorAfter(day_classes, call.duration_minutes, n - 1)
                /\ CursorAfter(day_classes, call.duration_minutes, n) >= DayStartMinute

\* C27: when two active, non-cancelled classes of a weekday with start < end
\* overlap as half-open intervals, detect_scheduling_conflicts returns at least
\* one record for that weekday; and the two classes of every record it returns
\* overlap as half-open intervals
C27_OverlapDetectedRecordsOverlap ==
    /\ \A day \in 0..(DaysPerWeek - 1) :
          LET cs == get_classes_by_day(day)
          IN  (\E i, j \in 1..Len(cs) :
                  /\ i # j
                  /\ cs[i].start_time < cs[i].end_time
                  /\ cs[j].start_time < cs[j].end_time
                  /\ Overlaps(cs[i].start_time, cs[i].end_time,
                              cs[j].start_time, cs[j].end_time))
                => \E k \in 1..Len(detect_scheduling_conflicts) :
                      detect_scheduling_conflicts[k].day = day
    /\ \A k \in 1..Len(detect_scheduling_conflicts) :
          LET c == detect_scheduling_conflicts[k]
          IN  /\ c.class1.class_id # c.class2.class_id
              /\ Overlaps(c.class1.start_time, c.class1.end_time,
                          c.class2.start_time, c.class2.end_time)

\* the task is due on a date before the date of the run
DueBeforeToday(task) == task.due_date # NULL /\ DateOf(task.due_date) < today

\* C28: a candidate due before today has an empty horizon: when the run has
\* ended no date was searched for it, it has no assignment and exactly one
\* schedule_conflict notification, whatever the timetable; it carries the
\* highest urgency bonus, 50, and is ranked ahead of every candidate of its
\* priority that is not due before today
C28_OverdueCandidateRejected ==
    Ended =>
        \A p \in 1..Len(sorted_tasks) :
            LET task == sorted_tasks[p]
            IN  DueBeforeToday(task) =>
                    /\ probed[p] = {}
                    /\ ~Committed(task.task_id)
                    /\ tasks[task.task_id].scheduled_date = NULL
                    /\ RejectionsOf(task.task_id) = 1
                    /\ calculate_priority_score(task) = priority_weights(task.priority) + 50
                    /\ \A q \in 1..Len(sorted_tasks) :
                          (/\ sorted_tasks[q].priority = task.priority
                           /\ ~DueBeforeToday(sorted_tasks[q])) => p < q

\* how many schedule_conflict notifications of the table name the task
RejectionsIn(table, task_id) ==
    Cardinality({n \in 1..Len(table) :
                    /\ table[n].notification_type = "schedule_conflict"
                    /\ table[n].related_task_id = task_id})

\* C29: an invocation made right after another has ended, on the same day and
\* the same classes, commits no assignment and leaves every task's row as it
\* found it, and when it has ended each task the first invocation rejected has
\* one schedule_conflict notification more, the earlier notifications kept
C29_RerunOnlyRepeatsRejections ==
    run2.after_first =>
        /\ run2.scheduled = << >>
        /\ tasks = run2.tasks_before
        /\ SubSeq(notifications, 1, Len(run2.notifications_before))
              = run2.notifications_before
        /\ run2.pc \in {"returned", "raised"} =>
              \A id \in 1..Len(tasks) :
                  RejectionsOf(id) =
                      IF RejectionsIn(run2.notifications_before, id) > 0
                      THEN RejectionsIn(run2.notifications_before, id) + 1
                      ELSE 0

\* the first invocation assigned one task and rejected the other; the second,
\* begun after it, has returned: nothing assigned, the rejected task notified
\* a second time
C29_Witness ==
    /\ run2.after_first
    /\ run2.pc = "returned"
    /\ Len(scheduled) = 1
    /\ run2.scheduled = << >>
    /\ \E id \in 1..Len(tasks) :
          /\ RejectionsIn(run2.notifications_before, id) = 1
          /\ RejectionsOf(id) = 2

====
